---- MODULE Spec2Model ----
(***************************************************************************)
(* A model of the flashxroute JSON-RPC client: the hexadecimal codec       *)
(* (helpers.go), the two call modes Call and CallWithBloxrouteAuthHeader   *)
(* with their response classification, and the record-returning wrappers   *)
(* built on them (flashxroute.go, types).                                  *)
(*                                                                         *)
(* Go strings are sequences of one-character strings, so that prefixes,    *)
(* trimming and digit-by-digit parsing are computed and not assumed.       *)
(* The native int is IntBits wide instead of 64: the range checks of       *)
(* strconv.ParseInt are kept, at the scaled boundary.                      *)
(***************************************************************************)
EXTENDS Integers, Sequences, FiniteSets, TLC

(***************************************************************************)
(* Bounds                                                                  *)
(***************************************************************************)
IntBits == 9
MaxStrLen == 3
MaxBig == 300

RECURSIVE Pow2(_)
Pow2(k) == IF k = 0 THEN 1 ELSE 2 * Pow2(k - 1)

MaxInt == Pow2(IntBits - 1) - 1
MinInt == 0 - Pow2(IntBits - 1)

(***************************************************************************)
(* Strings                                                                 *)
(***************************************************************************)
ldigits == <<"0", "1", "2", "3", "4", "5", "6", "7", "8", "9",
             "a", "b", "c", "d", "e", "f">>

HasPrefix(s, p) == Len(s) >= Len(p) /\ SubSeq(s, 1, Len(p)) = p

TrimPrefix(s, p) == IF HasPrefix(s, p) THEN SubSeq(s, Len(p) + 1, Len(s)) ELSE s

\* bytes.Trim(data, cutset) for a one-character cutset: strips every leading
\* and every trailing occurrence of c.
RECURSIVE TrimLeft(_, _)
TrimLeft(s, c) ==
    IF s # <<>> /\ Head(s) = c THEN TrimLeft(Tail(s), c) ELSE s

RECURSIVE TrimRight(_, _)
TrimRight(s, c) ==
    IF s # <<>> /\ s[Len(s)] = c THEN TrimRight(SubSeq(s, 1, Len(s) - 1), c) ELSE s

Trim(s, c) == TrimRight(TrimLeft(s, c), c)

\* The value strconv and math/big give a character as a digit: 0-9, then
\* letters of either case from 10 up; 99 for a character that is no digit.
DigitVal(c) ==
    CASE c = "0" -> 0 [] c = "1" -> 1 [] c = "2" -> 2 [] c = "3" -> 3
      [] c = "4" -> 4 [] c = "5" -> 5 [] c = "6" -> 6 [] c = "7" -> 7
      [] c = "8" -> 8 [] c = "9" -> 9
      [] c \in {"a", "A"} -> 10 [] c \in {"b", "B"} -> 11
      [] c \in {"c", "C"} -> 12 [] c \in {"d", "D"} -> 13
      [] c \in {"e", "E"} -> 14 [] c \in {"f", "F"} -> 15
      [] c \in {"g", "G"} -> 16 [] c \in {"x", "X"} -> 33
      [] c \in {"o", "O"} -> 24 [] c \in {"n", "N"} -> 23
      [] c \in {"u", "U"} -> 30 [] c \in {"l", "L"} -> 21
      [] OTHER -> 99

\* strconv's decimal text of a non-negative number.
RECURSIVE Itoa(_)
Itoa(n) ==
    IF n < 10 THEN <<ldigits[n + 1]>>
    ELSE Append(Itoa(n \div 10), ldigits[(n % 10) + 1])

\* fmt's %x of a non-negative integer: lowercase digits, no padding, "0" for 0.
RECURSIVE FmtHex(_)
FmtHex(n) ==
    IF n < 16 THEN <<ldigits[n + 1]>>
    ELSE Append(FmtHex(n \div 16), ldigits[(n % 16) + 1])

\* fmt's %x of an int: the sign, then the digits of the magnitude.
SprintfX(i) == IF i < 0 THEN <<"-">> \o FmtHex(0 - i) ELSE FmtHex(i)

(***************************************************************************)
(* strconv.ParseInt(s, 16, 64), as ParseInt of helpers.go calls it         *)
(***************************************************************************)
\* strconv.ParseUint's loop in base 16: the first character that is not a
\* hex digit is a syntax error, a value beyond maxVal a range error; the
\* loop returns at the first of the two it meets.
RECURSIVE ParseUintLoop(_, _, _)
ParseUintLoop(s, n, maxVal) ==
    IF s = <<>> THEN [val |-> n, err |-> "nil"]
    ELSE IF DigitVal(Head(s)) >= 16 THEN [val |-> 0, err |-> "ErrSyntax"]
    ELSE IF n * 16 + DigitVal(Head(s)) > maxVal
         THEN [val |-> maxVal, err |-> "ErrRange"]
    ELSE ParseUintLoop(Tail(s), n * 16 + DigitVal(Head(s)), maxVal)

ParseUint(s) ==
    IF s = <<>> THEN [val |-> 0, err |-> "ErrSyntax"]
    ELSE ParseUintLoop(s, 0, Pow2(IntBits) - 1)

StrconvParseInt(s) ==
    IF s = <<>> THEN [val |-> 0, err |-> "ErrSyntax"]
    ELSE LET signed(neg, un, cutoff) ==
                 IF un.err = "ErrSyntax" THEN [val |-> 0, err |-> "ErrSyntax"]
                 ELSE IF ~neg /\ un.val >= cutoff
                      THEN [val |-> cutoff - 1, err |-> "ErrRange"]
                 ELSE IF neg /\ un.val > cutoff
                      THEN [val |-> 0 - cutoff, err |-> "ErrRange"]
                 ELSE [val |-> IF neg THEN 0 - un.val ELSE un.val, err |-> "nil"]
         IN  signed(Head(s) = "-",
                    ParseUint(IF Head(s) \in {"+", "-"} THEN Tail(s) ELSE s),
                    Pow2(IntBits - 1))

(***************************************************************************)
(* helpers.go                                                              *)
(***************************************************************************)
\* ParseInt with the empty remainder read as zero.
ParseInt_EmptyIsZero(value) ==
    LET int(r) == IF r.err # "nil" THEN [val |-> 0, err |-> r.err]
                  ELSE [val |-> r.val, err |-> "nil"]
    IN  IF TrimPrefix(value, <<"0", "x">>) = <<>> THEN [val |-> 0, err |-> "nil"]
        ELSE int(StrconvParseInt(TrimPrefix(value, <<"0", "x">>)))

ParseInt(value) ==
    LET int(r) == IF r.err # "nil" THEN [val |-> 0, err |-> r.err]
                  ELSE [val |-> r.val, err |-> "nil"]
    IN  int(StrconvParseInt(TrimPrefix(value, <<"0", "x">>)))

\* IntToHex with the decimal verb.
IntToHex_Decimal(i) ==
    <<"0", "x">> \o (IF i < 0 THEN <<"-">> \o Itoa(0 - i) ELSE Itoa(i))

IntToHex(i) == <<"0", "x">> \o SprintfX(i)

\* big.Int.Bytes(): the magnitude, big-endian, without leading zero bytes.
RECURSIVE BigBytes(_)
BigBytes(n) ==
    IF n = 0 THEN <<>> ELSE Append(BigBytes(n \div 256), n % 256)

\* fmt's %x of a byte slice: two lowercase digits per byte.
RECURSIVE SprintfXBytes(_)
SprintfXBytes(bs) ==
    IF bs = <<>> THEN <<>>
    ELSE <<ldigits[(Head(bs) \div 16) + 1], ldigits[(Head(bs) % 16) + 1]>>
         \o SprintfXBytes(Tail(bs))

Abs(n) == IF n < 0 THEN 0 - n ELSE n

\* BigToHex trimming the zeros of both ends.
BigToHex_TrimBoth(bigInt) ==
    IF bigInt = 0 THEN <<"0", "x", "0">>
    ELSE <<"0", "x">> \o Trim(SprintfXBytes(BigBytes(Abs(bigInt))), "0")

\* BigToHex without the trimming of the leading zero.
BigToHex_NoTrim(bigInt) ==
    IF bigInt = 0 THEN <<"0", "x", "0">>
    ELSE <<"0", "x">> \o SprintfXBytes(BigBytes(Abs(bigInt)))

BigToHex(bigInt) ==
    IF bigInt = 0 THEN <<"0", "x", "0">>
    ELSE <<"0", "x">> \o TrimPrefix(SprintfXBytes(BigBytes(Abs(bigInt))), <<"0">>)

\* math/big's nat.scan with base 0, as fmt.Sscan reaches it through
\* (*big.Int).Scan: digits of base b up to the first character that is not
\* one; what follows stays unread.
RECURSIVE ScanDigits(_, _, _, _)
ScanDigits(s, b, n, count) ==
    IF s = <<>> \/ DigitVal(Head(s)) >= b THEN [val |-> n, count |-> count]
    ELSE ScanDigits(Tail(s), b, n * b + DigitVal(Head(s)), count + 1)

NatScan(s) ==
    LET digits(r) ==
            [val |-> r.val, err |-> IF r.count = 0 THEN "errNoDigits" ELSE "nil"]
    IN  IF s # <<>> /\ Head(s) = "0"
        THEN IF Len(s) >= 2 /\ s[2] \in {"x", "X"}
             THEN digits(ScanDigits(SubSeq(s, 3, Len(s)), 16, 0, 0))
             ELSE IF Len(s) >= 2 /\ s[2] \in {"b", "B"}
             THEN digits(ScanDigits(SubSeq(s, 3, Len(s)), 2, 0, 0))
             ELSE IF Len(s) >= 2 /\ s[2] \in {"o", "O"}
             THEN digits(ScanDigits(SubSeq(s, 3, Len(s)), 8, 0, 0))
             ELSE \* a leading 0 alone selects octal
                  [val |-> ScanDigits(Tail(s), 8, 0, 0).val, err |-> "nil"]
        ELSE digits(ScanDigits(s, 10, 0, 0))

\* (*big.Int).scan: an optional sign, then the magnitude.
BigIntScan(s) ==
    IF s # <<>> /\ Head(s) \in {"+", "-"}
    THEN [NatScan(Tail(s)) EXCEPT !.val = IF Head(s) = "-" THEN 0 - @ ELSE @]
    ELSE NatScan(s)

\* fmt.Sscan skips leading space before it hands the text to the scanner.
ParseBigInt(value) == BigIntScan(TrimLeft(value, " "))

(***************************************************************************)
(* JSON values, as encoding/json sees a response body                      *)
(*                                                                         *)
(* A body is a syntax tree: t names the JSON type, and an object is a      *)
(* function from its keys to values.  "invalid" is a body that is not      *)
(* JSON; "absent" is the empty json.RawMessage of a field that was not on  *)
(* the wire, and as a body the response of zero bytes.                     *)
(***************************************************************************)
JInvalid == [t |-> "invalid"]
JAbsent == [t |-> "absent"]
JNull == [t |-> "null"]
JBool(b) == [t |-> "bool", b |-> b]
JNum(n) == [t |-> "num", n |-> n]
JStr(s) == [t |-> "str", s |-> s]
JArr(a) == [t |-> "arr", a |-> a]
JObj(o) == [t |-> "obj", o |-> o]

Has(j, k) == j.t = "obj" /\ k \in DOMAIN j.o

\* The member of an object, or JAbsent when the key is not there.
Member(j, k) == IF Has(j, k) THEN j.o[k] ELSE JAbsent

With(o, k, v) == [x \in (DOMAIN o) \cup {k} |-> IF x = k THEN v ELSE o[x]]

\* The bytes of a value as they stand in the body, which is what a
\* json.Unmarshaler is handed.  Of an object or an array only the opening
\* and closing brackets are kept.
RawText(j) ==
    CASE j.t = "null" -> <<"n", "u", "l", "l">>
      [] j.t = "bool" -> IF j.b THEN <<"t", "r", "u", "e">>
                         ELSE <<"f", "a", "l", "s", "e">>
      [] j.t = "num" -> IF j.n < 0 THEN <<"-">> \o Itoa(0 - j.n) ELSE Itoa(j.n)
      [] j.t = "str" -> <<"\"">> \o j.s \o <<"\"">>
      [] j.t = "arr" -> <<"[", "]">>
      [] j.t = "obj" -> <<"{", "}">>
      [] OTHER -> <<>>

(***************************************************************************)
(* Errors                                                                  *)
(***************************************************************************)
NilErr == [kind |-> "nil"]
TransportErr(e) == [kind |-> "transport", id |-> e]
JsonSyntaxError == [kind |-> "json.SyntaxError"]
JsonTypeError == [kind |-> "json.UnmarshalTypeError"]
NumError(e) == [kind |-> "NumError", id |-> e]
ScanError(e) == [kind |-> "ScanError", id |-> e]

\* RpcError of flashxroute.go: the error value Call returns.
RpcError(code, message) == [kind |-> "RpcError", code |-> code, message |-> message]

\* fmt.Errorf("%w: %s", ErrRelayErrorResponse, msg): an error that wraps
\* ErrRelayErrorResponse and carries msg.
RelayError(msg) == [kind |-> "wrapped", is |-> "ErrRelayErrorResponse", msg |-> msg]

(***************************************************************************)
(* encoding/json decoding into the scalar Go types of the response types   *)
(*                                                                         *)
(* A value of the wrong JSON type is an UnmarshalTypeError that leaves the *)
(* target at its zero value and lets decoding go on; null and a missing    *)
(* key leave the target untouched.                                         *)
(***************************************************************************)
DecString(j) ==
    CASE j.t = "str" -> [v |-> j.s, err |-> NilErr]
      [] j.t \in {"null", "absent"} -> [v |-> <<>>, err |-> NilErr]
      [] OTHER -> [v |-> <<>>, err |-> JsonTypeError]

DecInt(j) ==
    CASE j.t = "num" -> [v |-> j.n, err |-> NilErr]
      [] j.t \in {"null", "absent"} -> [v |-> 0, err |-> NilErr]
      [] OTHER -> [v |-> 0, err |-> JsonTypeError]

\* The first error of a sequence of errors, NilErr if there is none.
RECURSIVE FirstErr(_)
FirstErr(es) ==
    IF es = <<>> THEN NilErr
    ELSE IF Head(es).kind # "nil" THEN Head(es) ELSE FirstErr(Tail(es))

(***************************************************************************)
(* RelayErrorResponse and rpcResponse                                      *)
(***************************************************************************)
\* json.Unmarshal(data, new(RelayErrorResponse))
UnmarshalRelayErrorResponse(data) ==
    CASE data.t \in {"invalid", "absent"} -> [Error |-> <<>>, err |-> JsonSyntaxError]
      [] data.t = "null" -> [Error |-> <<>>, err |-> NilErr]
      [] data.t = "obj" ->
            LET e == DecString(Member(data, "error"))
            IN  [Error |-> e.v, err |-> e.err]
      [] OTHER -> [Error |-> <<>>, err |-> JsonTypeError]

\* The Error field of rpcResponse, a *RpcError: nil for null and for a
\* missing key, else a fresh RpcError decoded from the object.
UnmarshalRpcErrorPtr(j) ==
    CASE j.t \in {"null", "absent"} ->
            [isNil |-> TRUE, Code |-> 0, Message |-> <<>>, err |-> NilErr]
      [] j.t = "obj" ->
            LET c == DecInt(Member(j, "code"))
                m == DecString(Member(j, "message"))
            IN  [isNil |-> FALSE, Code |-> c.v, Message |-> m.v,
                 err |-> FirstErr(<<c.err, m.err>>)]
      [] OTHER ->
            [isNil |-> FALSE, Code |-> 0, Message |-> <<>>, err |-> JsonTypeError]

\* json.Unmarshal(data, new(rpcResponse)).  Result is a json.RawMessage: the
\* value as it stands, null included.
UnmarshalRpcResponse(data) ==
    LET zero == [ID |-> 0, JSONRPC |-> <<>>, Result |-> JAbsent,
                 Error |-> UnmarshalRpcErrorPtr(JAbsent), err |-> NilErr]
    IN  CASE data.t \in {"invalid", "absent"} -> [zero EXCEPT !.err = JsonSyntaxError]
          [] data.t = "null" -> zero
          [] data.t = "obj" ->
                LET id == DecInt(Member(data, "id"))
                    ver == DecString(Member(data, "jsonrpc"))
                    e == UnmarshalRpcErrorPtr(Member(data, "error"))
                IN  [ID |-> id.v, JSONRPC |-> ver.v,
                     Result |-> Member(data, "result"),
                     Error |-> e,
                     err |-> FirstErr(<<id.err, ver.err, e.err>>)]
          [] OTHER -> [zero EXCEPT !.err = JsonTypeError]

(***************************************************************************)
(* The request envelope                                                    *)
(***************************************************************************)
\* rpcRequest as Call and CallWithBloxrouteAuthHeader build it.  Params is
\* params[0]: the first of the caller's parameters, as it is.  With no
\* parameter the index is out of range and the call panics (HasParams).
HasParams(params) == Len(params) >= 1

rpcRequest(method, params) ==
    [id |-> 1, jsonrpc |-> "2.0", method |-> method, params |-> params[1]]

NoRequest == [id |-> 0, jsonrpc |-> "", method |-> "", params |-> JAbsent]

(***************************************************************************)
(* The replies of the transport                                            *)
(***************************************************************************)
NoReply == [kind |-> "none", err |-> NilErr, body |-> JAbsent]
DoFailed(e) == [kind |-> "doErr", err |-> TransportErr(e), body |-> JAbsent]
ReadFailed(e) == [kind |-> "readErr", err |-> TransportErr(e), body |-> JAbsent]
Replied(b) == [kind |-> "body", err |-> NilErr, body |-> b]

(***************************************************************************)
(* Call and CallWithBloxrouteAuthHeader, from the reply on                 *)
(*                                                                         *)
(* Each gives the pair the function returns (result, err) and the decodes  *)
(* of the body it ran, in order.                                           *)
(***************************************************************************)
NoReturn == [result |-> JAbsent, err |-> NilErr, decodes |-> <<>>]

\* Call returning the result whatever the envelope's error.
CallReturn_IgnoreError(rep) ==
    IF rep.kind \in {"doErr", "readErr"}
    THEN [result |-> JAbsent, err |-> rep.err, decodes |-> <<>>]
    ELSE LET resp == UnmarshalRpcResponse(rep.body)
         IN  IF resp.err.kind # "nil"
             THEN [result |-> JAbsent, err |-> resp.err, decodes |-> <<"rpcResponse">>]
             ELSE [result |-> resp.Result, err |-> NilErr,
                   decodes |-> <<"rpcResponse">>]

CallReturn(rep) ==
    IF rep.kind \in {"doErr", "readErr"}
    THEN [result |-> JAbsent, err |-> rep.err, decodes |-> <<>>]
    ELSE LET resp == UnmarshalRpcResponse(rep.body)
         IN  IF resp.err.kind # "nil"
             THEN [result |-> JAbsent, err |-> resp.err, decodes |-> <<"rpcResponse">>]
             ELSE IF ~resp.Error.isNil
             THEN [result |-> JAbsent,
                   err |-> RpcError(resp.Error.Code, resp.Error.Message),
                   decodes |-> <<"rpcResponse">>]
             ELSE [result |-> resp.Result, err |-> NilErr,
                   decodes |-> <<"rpcResponse">>]

\* The authenticated call decoding the envelope before the flat shape.
CallWithBloxrouteAuthHeaderReturn_EnvelopeFirst(rep) ==
    IF rep.kind \in {"doErr", "readErr"}
    THEN [result |-> JAbsent, err |-> rep.err, decodes |-> <<>>]
    ELSE LET errorResp == UnmarshalRelayErrorResponse(rep.body)
             resp == UnmarshalRpcResponse(rep.body)
         IN  IF resp.err.kind # "nil"
             THEN [result |-> JAbsent, err |-> resp.err, decodes |-> <<"rpcResponse">>]
             ELSE IF ~resp.Error.isNil
             THEN [result |-> JAbsent, err |-> RelayError(resp.Error.Message),
                   decodes |-> <<"rpcResponse">>]
             ELSE IF errorResp.err.kind = "nil" /\ errorResp.Error # <<>>
             THEN [result |-> JAbsent, err |-> RelayError(errorResp.Error),
                   decodes |-> <<"rpcResponse", "RelayErrorResponse">>]
             ELSE [result |-> resp.Result, err |-> NilErr,
                   decodes |-> <<"rpcResponse", "RelayErrorResponse">>]

\* The authenticated call handing the envelope's error on as Call does.
CallWithBloxrouteAuthHeaderReturn_RpcError(rep) ==
    IF rep.kind \in {"doErr", "readErr"}
    THEN [result |-> JAbsent, err |-> rep.err, decodes |-> <<>>]
    ELSE LET errorResp == UnmarshalRelayErrorResponse(rep.body)
             resp == UnmarshalRpcResponse(rep.body)
         IN  IF errorResp.err.kind = "nil" /\ errorResp.Error # <<>>
             THEN [result |-> JAbsent, err |-> RelayError(errorResp.Error),
                   decodes |-> <<"RelayErrorResponse">>]
             ELSE IF resp.err.kind # "nil"
             THEN [result |-> JAbsent, err |-> resp.err,
                   decodes |-> <<"RelayErrorResponse", "rpcResponse">>]
             ELSE IF ~resp.Error.isNil
             THEN [result |-> JAbsent,
                   err |-> RpcError(resp.Error.Code, resp.Error.Message),
                   decodes |-> <<"RelayErrorResponse", "rpcResponse">>]
             ELSE [result |-> resp.Result, err |-> NilErr,
                   decodes |-> <<"RelayErrorResponse", "rpcResponse">>]

CallWithBloxrouteAuthHeaderReturn(rep) ==
    IF rep.kind \in {"doErr", "readErr"}
    THEN [result |-> JAbsent, err |-> rep.err, decodes |-> <<>>]
    ELSE LET errorResp == UnmarshalRelayErrorResponse(rep.body)
             resp == UnmarshalRpcResponse(rep.body)
         IN  IF errorResp.err.kind = "nil" /\ errorResp.Error # <<>>
             THEN [result |-> JAbsent, err |-> RelayError(errorResp.Error),
                   decodes |-> <<"RelayErrorResponse">>]
             ELSE IF resp.err.kind # "nil"
             THEN [result |-> JAbsent, err |-> resp.err,
                   decodes |-> <<"RelayErrorResponse", "rpcResponse">>]
             ELSE IF ~resp.Error.isNil
             THEN [result |-> JAbsent, err |-> RelayError(resp.Error.Message),
                   decodes |-> <<"RelayErrorResponse", "rpcResponse">>]
             ELSE [result |-> resp.Result, err |-> NilErr,
                   decodes |-> <<"RelayErrorResponse", "rpcResponse">>]

(***************************************************************************)
(* The response types and their proxies                                    *)
(*                                                                         *)
(* A struct type is the sequence of its fields in declaration order: the   *)
(* Go name, the JSON key of its tag ("-" for a field encoding/json skips)  *)
(* and the Go type.                                                        *)
(***************************************************************************)
F(name, key, ty) == [name |-> name, key |-> key, ty |-> ty]

proxySyncing ==
    <<F("IsSyncing", "-", "bool"),
      F("StartingBlock", "startingBlock", "hexInt"),
      F("CurrentBlock", "currentBlock", "hexInt"),
      F("HighestBlock", "highestBlock", "hexInt")>>

Syncing == <<"IsSyncing", "StartingBlock", "CurrentBlock", "HighestBlock">>

proxyTransaction ==
    <<F("Hash", "hash", "string"),
      F("Nonce", "nonce", "hexInt"),
      F("BlockHash", "blockHash", "string"),
      F("BlockNumber", "blockNumber", "*hexInt"),
      F("TransactionIndex", "transactionIndex", "*hexInt"),
      F("From", "from", "string"),
      F("To", "to", "string"),
      F("Value", "value", "hexBig"),
      F("Gas", "gas", "hexInt"),
      F("GasPrice", "gasPrice", "hexBig"),
      F("Input", "input", "string")>>

Transaction ==
    <<"Hash", "Nonce", "BlockHash", "BlockNumber", "TransactionIndex",
      "From", "To", "Value", "Gas", "GasPrice", "Input">>

proxyLog ==
    <<F("Removed", "removed", "bool"),
      F("LogIndex", "logIndex", "hexInt"),
      F("TransactionIndex", "transactionIndex", "hexInt"),
      F("TransactionHash", "transactionHash", "string"),
      F("BlockNumber", "blockNumber", "hexInt"),
      F("BlockHash", "blockHash", "string"),
      F("Address", "address", "string"),
      F("Data", "data", "string"),
      F("Topics", "topics", "[]string")>>

Log ==
    <<"Removed", "LogIndex", "TransactionIndex", "TransactionHash",
      "BlockNumber", "BlockHash", "Address", "Data", "Topics">>

proxyTransactionReceipt ==
    <<F("TransactionHash", "transactionHash", "string"),
      F("TransactionIndex", "transactionIndex", "hexInt"),
      F("BlockHash", "blockHash", "string"),
      F("BlockNumber", "blockNumber", "hexInt"),
      F("CumulativeGasUsed", "cumulativeGasUsed", "hexInt"),
      F("GasUsed", "gasUsed", "hexInt"),
      F("ContractAddress", "contractAddress", "string"),
      F("Logs", "logs", "[]Log"),
      F("LogsBloom", "logsBloom", "string"),
      F("Root", "root", "string"),
      F("Status", "status", "string")>>

TransactionReceipt ==
    <<"TransactionHash", "TransactionIndex", "BlockHash", "BlockNumber",
      "CumulativeGasUsed", "GasUsed", "ContractAddress", "Logs", "LogsBloom",
      "Root", "Status">>

\* The fields the two block proxies share, Number to Uncles.
proxyBlockHeader ==
    <<F("Number", "number", "hexInt"),
      F("Hash", "hash", "string"),
      F("ParentHash", "parentHash", "string"),
      F("Nonce", "nonce", "string"),
      F("Sha3Uncles", "sha3Uncles", "string"),
      F("LogsBloom", "logsBloom", "string"),
      F("TransactionsRoot", "transactionsRoot", "string"),
      F("StateRoot", "stateRoot", "string"),
      F("Miner", "miner", "string"),
      F("Difficulty", "difficulty", "hexBig"),
      F("TotalDifficulty", "totalDifficulty", "hexBig"),
      F("ExtraData", "extraData", "string"),
      F("Size", "size", "hexInt"),
      F("GasLimit", "gasLimit", "hexInt"),
      F("GasUsed", "gasUsed", "hexInt"),
      F("Timestamp", "timestamp", "hexInt"),
      F("Uncles", "uncles", "[]string")>>

proxyBlockWithTransactions ==
    Append(proxyBlockHeader, F("Transactions", "transactions", "[]proxyTransaction"))

proxyBlockWithoutTransactions ==
    Append(proxyBlockHeader, F("Transactions", "transactions", "[]string"))

Block ==
    <<"Number", "Hash", "ParentHash", "Nonce", "Sha3Uncles", "LogsBloom",
      "TransactionsRoot", "StateRoot", "Miner", "Difficulty", "TotalDifficulty",
      "ExtraData", "Size", "GasLimit", "GasUsed", "Timestamp", "Uncles",
      "Transactions">>

BloxrouteSimulateBundleResult ==
    <<F("GasUsed", "gasUsed", "int64"),
      F("TxHash", "txHash", "string"),
      F("Value", "value", "string"),
      F("Error", "error", "string")>>

BloxrouteSimulateBundleResponse ==
    <<F("BundleGasPrice", "bundleGasPrice", "string"),
      F("BundleHash", "bundleHash", "string"),
      F("CoinbaseDiff", "coinbaseDiff", "string"),
      F("EthSentToCoinbase", "ethSentToCoinbase", "string"),
      F("GasFees", "gasFees", "string"),
      F("Results", "results", "[]BloxrouteSimulateBundleResult"),
      F("StateBlockNumber", "stateBlockNumber", "int64"),
      F("TotalGasUsed", "totalGasUsed", "int64")>>

BloxrouteSubmitBundleResponse == <<F("BundleHash", "bundleHash", "string")>>

\* The struct type a type name stands for.
StructOf(ty) ==
    CASE ty = "proxySyncing" -> proxySyncing
      [] ty = "proxyTransaction" -> proxyTransaction
      [] ty = "proxyLog" -> proxyLog
      [] ty = "proxyTransactionReceipt" -> proxyTransactionReceipt
      [] ty = "proxyBlockWithTransactions" -> proxyBlockWithTransactions
      [] ty = "proxyBlockWithoutTransactions" -> proxyBlockWithoutTransactions
      [] ty = "BloxrouteSimulateBundleResult" -> BloxrouteSimulateBundleResult
      [] ty = "BloxrouteSimulateBundleResponse" -> BloxrouteSimulateBundleResponse
      [] ty = "BloxrouteSubmitBundleResponse" -> BloxrouteSubmitBundleResponse

StructTypes ==
    {"proxySyncing", "proxyTransaction", "proxyLog", "proxyTransactionReceipt",
     "proxyBlockWithTransactions", "proxyBlockWithoutTransactions",
     "BloxrouteSimulateBundleResult", "BloxrouteSimulateBundleResponse",
     "BloxrouteSubmitBundleResponse"}

\* The element type of a slice type.
ElemOf(ty) ==
    CASE ty = "[]string" -> "string"
      [] ty = "[]Log" -> "Log"
      [] ty = "[]proxyTransaction" -> "proxyTransaction"
      [] ty = "[]BloxrouteSimulateBundleResult" -> "BloxrouteSimulateBundleResult"

SliceTypes ==
    {"[]string", "[]Log", "[]proxyTransaction", "[]BloxrouteSimulateBundleResult"}

\* A nil pointer, and a pointer to v.
PtrNil == [isNil |-> TRUE, v |-> 0]
PtrTo(v) == [isNil |-> FALSE, v |-> v]

Range(s) == {s[i] : i \in 1..Len(s)}

IndexOf(s, x) == CHOOSE i \in 1..Len(s) : s[i] = x

RECURSIVE ZeroOf(_)
ZeroOf(ty) ==
    CASE ty = "string" -> <<>>
      [] ty \in {"hexInt", "hexBig", "int64"} -> 0
      [] ty = "bool" -> FALSE
      [] ty = "*hexInt" -> PtrNil
      [] ty \in SliceTypes -> <<>>
      [] ty = "Log" -> [n \in Range(Log) |-> ZeroOf(proxyLog[IndexOf(Log, n)].ty)]
      [] ty = "Syncing" ->
            [n \in Range(Syncing) |-> ZeroOf(proxySyncing[IndexOf(Syncing, n)].ty)]
      [] ty = "Transaction" ->
            [n \in Range(Transaction) |->
                ZeroOf(proxyTransaction[IndexOf(Transaction, n)].ty)]
      [] ty = "TransactionReceipt" ->
            [n \in Range(TransactionReceipt) |->
                ZeroOf(proxyTransactionReceipt[IndexOf(TransactionReceipt, n)].ty)]
      [] ty \in StructTypes ->
            [n \in {f.name : f \in Range(StructOf(ty))} |->
                ZeroOf((CHOOSE f \in Range(StructOf(ty)) : f.name = n).ty)]

\* *(*T)(unsafe.Pointer(proxy)): the memory of the proxy read as a T, which
\* gives field k of T the value of field k of the proxy.
Reinterpret(proxy, from, to) ==
    [n \in Range(to) |-> proxy[from[IndexOf(to, n)].name]]

(***************************************************************************)
(* encoding/json decoding into a value of a Go type                        *)
(*                                                                         *)
(* Dec(ty, j) is the value the target holds afterwards (it starts at its   *)
(* zero value), the error, and whether the error came from an UnmarshalJSON*)
(* method (hard), which ends the decoding, or is an UnmarshalTypeError,    *)
(* which is kept while decoding goes on.  A missing key decodes nothing.   *)
(* Members are taken in declaration order, the body's own order not being  *)
(* modelled; keys are matched exactly.                                     *)
(***************************************************************************)
Ok(v) == [v |-> v, err |-> NilErr, hard |-> FALSE]
TypeErr(v) == [v |-> v, err |-> JsonTypeError, hard |-> FALSE]

\* The error of a sequence of decodes: the first hard one, else the first.
RECURSIVE FirstHard(_)
FirstHard(rs) ==
    IF rs = <<>> THEN NilErr
    ELSE IF Head(rs).hard THEN Head(rs).err ELSE FirstHard(Tail(rs))

ErrOf(rs) ==
    IF \E i \in 1..Len(rs) : rs[i].hard
    THEN [err |-> FirstHard(rs), hard |-> TRUE]
    ELSE [err |-> FirstErr([i \in 1..Len(rs) |-> rs[i].err]), hard |-> FALSE]

\* hexInt.UnmarshalJSON: the value is set to what ParseInt returned, also
\* when it failed.
hexIntUnmarshalJSON(data) ==
    LET set(r) == [v |-> r.val,
                   err |-> IF r.err = "nil" THEN NilErr ELSE NumError(r.err),
                   hard |-> r.err # "nil"]
    IN  set(ParseInt(Trim(data, "\"")))

hexBigUnmarshalJSON(data) ==
    LET set(r) == [v |-> r.val,
                   err |-> IF r.err = "nil" THEN NilErr ELSE ScanError(r.err),
                   hard |-> r.err # "nil"]
    IN  set(ParseBigInt(Trim(data, "\"")))

RECURSIVE Dec(_, _)
RECURSIVE DecStruct(_, _)
RECURSIVE LogUnmarshalJSON(_)
RECURSIVE SyncingUnmarshalJSON(_)
RECURSIVE TransactionUnmarshalJSON(_)
RECURSIVE TransactionReceiptUnmarshalJSON(_)

DecStruct(ty, j) ==
    LET fields(fs, rs, e) ==
            [v |-> [n \in {fs[i].name : i \in 1..Len(fs)} |->
                      rs[CHOOSE i \in 1..Len(fs) : fs[i].name = n].v],
             err |-> e.err, hard |-> e.hard]
        decode(fs) ==
            [i \in 1..Len(fs) |->
                IF fs[i].key = "-" THEN Ok(ZeroOf(fs[i].ty))
                ELSE Dec(fs[i].ty, Member(j, fs[i].key))]
        each(fs, rs) == fields(fs, rs, ErrOf(rs))
        struct(fs) == each(fs, decode(fs))
    IN  struct(StructOf(ty))

Dec(ty, j) ==
    IF j.t = "absent" THEN Ok(ZeroOf(ty))
    ELSE CASE ty = "hexInt" -> hexIntUnmarshalJSON(RawText(j))
           [] ty = "hexBig" -> hexBigUnmarshalJSON(RawText(j))
           [] ty = "*hexInt" ->
                IF j.t = "null" THEN Ok(PtrNil)
                ELSE [hexIntUnmarshalJSON(RawText(j)) EXCEPT !.v = PtrTo(@)]
           [] ty = "Log" -> LogUnmarshalJSON(j)
           [] ty = "Syncing" -> SyncingUnmarshalJSON(j)
           [] ty = "Transaction" -> TransactionUnmarshalJSON(j)
           [] ty = "TransactionReceipt" -> TransactionReceiptUnmarshalJSON(j)
           [] ty = "string" ->
                IF j.t = "str" THEN Ok(j.s)
                ELSE IF j.t = "null" THEN Ok(<<>>) ELSE TypeErr(<<>>)
           [] ty = "int64" ->
                IF j.t = "num" THEN Ok(j.n)
                ELSE IF j.t = "null" THEN Ok(0) ELSE TypeErr(0)
           [] ty = "bool" ->
                IF j.t = "bool" THEN Ok(j.b)
                ELSE IF j.t = "null" THEN Ok(FALSE) ELSE TypeErr(FALSE)
           [] ty \in SliceTypes ->
                IF j.t = "arr"
                THEN LET elems(rs, e) == [v |-> [i \in 1..Len(rs) |-> rs[i].v],
                                          err |-> e.err, hard |-> e.hard]
                         each(rs) == elems(rs, ErrOf(rs))
                     IN  each([i \in 1..Len(j.a) |-> Dec(ElemOf(ty), j.a[i])])
                ELSE IF j.t = "null" THEN Ok(<<>>) ELSE TypeErr(<<>>)
           [] ty \in StructTypes ->
                IF j.t = "obj" THEN DecStruct(ty, j)
                ELSE IF j.t = "null" THEN Ok(ZeroOf(ty)) ELSE TypeErr(ZeroOf(ty))

\* json.Unmarshal(data, target) with a target of type ty at its zero value:
\* data that is not JSON, or empty, is a SyntaxError before any decoding.  A
\* target with an UnmarshalJSON method is handed every valid value, null
\* included.
Unmarshal(ty, data) ==
    IF data.t \in {"invalid", "absent"}
    THEN [v |-> ZeroOf(ty), err |-> JsonSyntaxError, hard |-> TRUE]
    ELSE Dec(ty, data)

\* The UnmarshalJSON methods of the public types: decode a proxy; on an
\* error return it and leave the target alone; else overwrite the target
\* with the reinterpreted proxy.
LogUnmarshalJSON(data) ==
    LET set(p) == IF p.err.kind # "nil"
                  THEN [v |-> ZeroOf("Log"), err |-> p.err, hard |-> TRUE]
                  ELSE Ok(Reinterpret(p.v, proxyLog, Log))
    IN  set(Unmarshal("proxyLog", data))

SyncingUnmarshalJSON(data) ==
    LET set(p) == IF p.err.kind # "nil"
                  THEN [v |-> ZeroOf("Syncing"), err |-> p.err, hard |-> TRUE]
                  ELSE Ok(Reinterpret([p.v EXCEPT !.IsSyncing = TRUE],
                                      proxySyncing, Syncing))
    IN  set(Unmarshal("proxySyncing", data))

\* Transaction.UnmarshalJSON through a proxy whose block number and index
\* are plain numbers: a pending transaction gets 0 for both.
TransactionUnmarshalJSON_NullAsZero(data) ==
    LET deref(ptr) == IF ptr.isNil THEN PtrTo(0) ELSE ptr
        set(p) == IF p.err.kind # "nil"
                  THEN [v |-> ZeroOf("Transaction"), err |-> p.err, hard |-> TRUE]
                  ELSE Ok([Reinterpret(p.v, proxyTransaction, Transaction)
                              EXCEPT !.BlockNumber = deref(@),
                                     !.TransactionIndex = deref(@)])
    IN  set(Unmarshal("proxyTransaction", data))

TransactionUnmarshalJSON(data) ==
    LET set(p) == IF p.err.kind # "nil"
                  THEN [v |-> ZeroOf("Transaction"), err |-> p.err, hard |-> TRUE]
                  ELSE Ok(Reinterpret(p.v, proxyTransaction, Transaction))
    IN  set(Unmarshal("proxyTransaction", data))

TransactionReceiptUnmarshalJSON(data) ==
    LET set(p) == IF p.err.kind # "nil"
                  THEN [v |-> ZeroOf("TransactionReceipt"),
                        err |-> p.err, hard |-> TRUE]
                  ELSE Ok(Reinterpret(p.v, proxyTransactionReceipt,
                                      TransactionReceipt))
    IN  set(Unmarshal("proxyTransactionReceipt", data))

\* toBlock of proxyBlockWithTransactions: one reinterpretation, the
\* transactions with it.
proxyBlockWithTransactionsToBlock(proxy) ==
    LET b == Reinterpret(proxy, proxyBlockWithTransactions, Block)
    IN  [b EXCEPT !.Transactions =
            [i \in 1..Len(proxy.Transactions) |->
                Reinterpret(proxy.Transactions[i], proxyTransaction, Transaction)]]

\* toBlock of proxyBlockWithoutTransactions that also fills in, for each
\* transaction, the hash of the block it stands in.
proxyBlockWithoutTransactionsToBlock_BlockHash(proxy) ==
    [Reinterpret(proxy, proxyBlockWithoutTransactions, Block)
        EXCEPT !.Transactions =
            [i \in 1..Len(proxy.Transactions) |->
                [ZeroOf("Transaction") EXCEPT !.Hash = proxy.Transactions[i],
                                              !.BlockHash = proxy.Hash]]]

\* toBlock of proxyBlockWithoutTransactions: the header field by field, and
\* one Transaction per hash with Hash alone set.
proxyBlockWithoutTransactionsToBlock(proxy) ==
    [Number |-> proxy.Number,
     Hash |-> proxy.Hash,
     ParentHash |-> proxy.ParentHash,
     Nonce |-> proxy.Nonce,
     Sha3Uncles |-> proxy.Sha3Uncles,
     LogsBloom |-> proxy.LogsBloom,
     TransactionsRoot |-> proxy.TransactionsRoot,
     StateRoot |-> proxy.StateRoot,
     Miner |-> proxy.Miner,
     Difficulty |-> proxy.Difficulty,
     TotalDifficulty |-> proxy.TotalDifficulty,
     ExtraData |-> proxy.ExtraData,
     Size |-> proxy.Size,
     GasLimit |-> proxy.GasLimit,
     GasUsed |-> proxy.GasUsed,
     Timestamp |-> proxy.Timestamp,
     Uncles |-> proxy.Uncles,
     Transactions |->
        [i \in 1..Len(proxy.Transactions) |->
            [ZeroOf("Transaction") EXCEPT !.Hash = proxy.Transactions[i]]]]

(***************************************************************************)
(* The record-returning operations, from the return of the call on         *)
(*                                                                         *)
(* Each gives what the operation returns: whether a record is returned     *)
(* (a non-nil pointer, or a struct by value), the record, and the error.   *)
(***************************************************************************)
NoRecord == <<>>
Returns(present, val, err) == [present |-> present, val |-> val, err |-> err]
NoOut == Returns(FALSE, NoRecord, NilErr)

ZeroSyncing == ZeroOf("Syncing")
ZeroTransaction == ZeroOf("Transaction")
ZeroTransactionReceipt == ZeroOf("TransactionReceipt")

EthSyncing(r) ==
    IF r.err.kind # "nil" THEN Returns(FALSE, NoRecord, r.err)
    ELSE IF r.result.t = "bool" /\ ~r.result.b
    THEN Returns(TRUE, ZeroSyncing, NilErr)
    ELSE LET syncing(u) == Returns(TRUE, u.v, u.err)
         IN  syncing(Unmarshal("Syncing", r.result))

\* getBlock choosing its decoder by the payload: the full-transaction
\* decoder when the first transaction on the wire is an object.
getBlock_Sniff(withTransactions, r) ==
    IF r.err.kind # "nil" THEN Returns(FALSE, NoRecord, r.err)
    ELSE IF r.result.t = "null" THEN Returns(FALSE, NoRecord, NilErr)
    ELSE LET full == IF Member(r.result, "transactions").t = "arr"
                        /\ Len(Member(r.result, "transactions").a) > 0
                     THEN Member(r.result, "transactions").a[1].t = "obj"
                     ELSE withTransactions
             block(response) ==
                 IF response.err.kind # "nil"
                 THEN Returns(FALSE, NoRecord, response.err)
                 ELSE Returns(TRUE,
                              IF full
                              THEN proxyBlockWithTransactionsToBlock(response.v)
                              ELSE proxyBlockWithoutTransactionsToBlock(response.v),
                              NilErr)
         IN  block(Unmarshal(IF full
                             THEN "proxyBlockWithTransactions"
                             ELSE "proxyBlockWithoutTransactions", r.result))

getBlock(withTransactions, r) ==
    IF r.err.kind # "nil" THEN Returns(FALSE, NoRecord, r.err)
    ELSE IF r.result.t = "null" THEN Returns(FALSE, NoRecord, NilErr)
    ELSE LET block(response) ==
                 IF response.err.kind # "nil"
                 THEN Returns(FALSE, NoRecord, response.err)
                 ELSE Returns(TRUE,
                              IF withTransactions
                              THEN proxyBlockWithTransactionsToBlock(response.v)
                              ELSE proxyBlockWithoutTransactionsToBlock(response.v),
                              NilErr)
         IN  block(Unmarshal(IF withTransactions
                             THEN "proxyBlockWithTransactions"
                             ELSE "proxyBlockWithoutTransactions", r.result))

getTransaction(r) ==
    IF r.err.kind # "nil" THEN Returns(TRUE, ZeroTransaction, r.err)
    ELSE LET transaction(u) == Returns(TRUE, u.v, u.err)
         IN  transaction(Unmarshal("Transaction", r.result))

EthGetTransactionReceipt(r) ==
    IF r.err.kind # "nil" THEN Returns(FALSE, NoRecord, r.err)
    ELSE LET receipt(u) == IF u.err.kind # "nil"
                           THEN Returns(FALSE, NoRecord, u.err)
                           ELSE Returns(TRUE, u.v, NilErr)
         IN  receipt(Unmarshal("TransactionReceipt", r.result))

\* BloxrouteSimulateBundle and BloxrouteBrmSimulateBundle: res is returned
\* by value, as json.Unmarshal left it.
BloxrouteSimulateBundle(r) ==
    IF r.err.kind # "nil"
    THEN Returns(TRUE, ZeroOf("BloxrouteSimulateBundleResponse"), r.err)
    ELSE LET res(u) == Returns(TRUE, u.v, u.err)
         IN  res(Unmarshal("BloxrouteSimulateBundleResponse", r.result))

\* BloxrouteSubmitBundle and BloxrouteBrmSubmitBundle.
BloxrouteSubmitBundle(r) ==
    IF r.err.kind # "nil"
    THEN Returns(TRUE, ZeroOf("BloxrouteSubmitBundleResponse"), r.err)
    ELSE LET res(u) == Returns(TRUE, u.v, u.err)
         IN  res(Unmarshal("BloxrouteSubmitBundleResponse", r.result))

\* The zero value of the record an operation returns.
ZeroRecord(op) ==
    CASE op = "EthSyncing" -> ZeroSyncing
      [] op \in {"EthGetTransactionByHash", "EthGetTransactionByBlockHashAndIndex",
                 "EthGetTransactionByBlockNumberAndIndex"} -> ZeroTransaction
      [] op = "EthGetTransactionReceipt" -> ZeroTransactionReceipt
      [] op \in {"BloxrouteSimulateBundle", "BloxrouteBrmSimulateBundle"} ->
            ZeroOf("BloxrouteSimulateBundleResponse")
      [] op \in {"BloxrouteSubmitBundle", "BloxrouteBrmSubmitBundle"} ->
            ZeroOf("BloxrouteSubmitBundleResponse")
      [] OTHER -> NoRecord

(***************************************************************************)
(* Inputs                                                                  *)
(***************************************************************************)
MaxParams == 2

MsgHexInt == <<"b", "a", "d">>
MsgNotFound == <<"n", "f">>
HexOne == <<"0", "x", "1">>
HexZero == <<"0", "x", "0">>
HexBare == <<"0", "x">>
HexBad == <<"0", "x", "g">>
HashA == <<"0", "x", "a">>
HashB == <<"0", "x", "b">>

\* The object with the members of a sequence of <<key, value>> pairs.
Obj(pairs) ==
    JObj([k \in {pairs[i][1] : i \in 1..Len(pairs)} |->
            (CHOOSE p \in {pairs[i] : i \in 1..Len(pairs)} : p[1] = k)[2]])

\* j with member k set to v, or j itself when v is JAbsent.
Put(j, k, v) == IF v.t = "absent" THEN j ELSE JObj(With(j.o, k, v))

\* What a caller may pass as a parameter.
ParamVals == {JStr(HexOne), JBool(TRUE), JArr(<<JStr(HexOne), JBool(FALSE)>>)}

ParamLists ==
    UNION {[1..k -> ParamVals] : k \in 0..MaxParams}

\* What a body may carry under "error": nothing, null, a string (the flat
\* shape of the relay), an object (the envelope's), or a number.
ErrorMembers ==
    {JAbsent, JNull, JStr(<<>>), JStr(MsgHexInt), JNum(7), Obj(<<>>),
     Obj(<<<<"code", JNum(0 - 32601)>>, <<"message", JStr(MsgNotFound)>>>>),
     Obj(<<<<"code", JStr(HexOne)>>, <<"message", JStr(MsgNotFound)>>>>)}

ResultMembers == {JAbsent, JNull, JBool(FALSE), JStr(HexOne)}

\* Results a node gives for a transaction: mined, pending, and with a
\* malformed or mistyped member.
TxMined ==
    Obj(<<<<"hash", JStr(HashA)>>, <<"nonce", JStr(HexOne)>>,
          <<"blockHash", JStr(HashB)>>, <<"blockNumber", JStr(HexZero)>>,
          <<"transactionIndex", JStr(HexOne)>>, <<"from", JStr(HashA)>>,
          <<"to", JStr(HashB)>>, <<"value", JStr(<<"0", "x", "1", "f">>)>>,
          <<"gas", JStr(<<"0", "x", "1", "0">>)>>, <<"gasPrice", JStr(HexOne)>>,
          <<"input", JStr(HexBare)>>>>)

TxPending == Put(Put(TxMined, "blockNumber", JNull), "transactionIndex", JNull)

TransactionResults ==
    {TxMined, TxPending,
     Put(TxMined, "nonce", JStr(HexBare)),
     Put(TxMined, "value", JStr(HexBare)),
     Put(TxMined, "gas", JNum(5)),
     Put(TxMined, "hash", JNum(5)),
     Obj(<<<<"hash", JStr(HashA)>>>>)}

BlockHeader ==
    Obj(<<<<"number", JStr(HexOne)>>, <<"hash", JStr(HashA)>>,
          <<"parentHash", JStr(HashB)>>, <<"miner", JStr(HashB)>>,
          <<"difficulty", JStr(<<"0", "x", "1", "0", "0">>)>>,
          <<"size", JStr(<<"0", "x", "2", "0">>)>>,
          <<"uncles", JArr(<<JStr(HashB)>>)>>>>)

BlockResults ==
    {Put(BlockHeader, "transactions", JArr(<<JStr(HashA), JStr(HashB)>>)),
     Put(BlockHeader, "transactions", JArr(<<TxMined, TxPending>>)),
     Put(BlockHeader, "transactions", JArr(<<>>)),
     Put(Put(BlockHeader, "transactions", JArr(<<JStr(HashA)>>)), "number", JStr(HexBad)),
     BlockHeader}

LogEntry ==
    Obj(<<<<"removed", JBool(FALSE)>>, <<"logIndex", JStr(HexOne)>>,
          <<"transactionIndex", JStr(HexZero)>>, <<"transactionHash", JStr(HashA)>>,
          <<"blockNumber", JStr(HexOne)>>, <<"blockHash", JStr(HashB)>>,
          <<"address", JStr(HashA)>>, <<"data", JStr(HexBare)>>,
          <<"topics", JArr(<<JStr(HashA)>>)>>>>)

ReceiptBase ==
    Obj(<<<<"transactionHash", JStr(HashA)>>, <<"transactionIndex", JStr(HexZero)>>,
          <<"blockHash", JStr(HashB)>>, <<"blockNumber", JStr(HexOne)>>,
          <<"cumulativeGasUsed", JStr(<<"0", "x", "2", "0">>)>>,
          <<"gasUsed", JStr(<<"0", "x", "1", "0">>)>>,
          <<"logs", JArr(<<LogEntry>>)>>, <<"logsBloom", JStr(HexZero)>>,
          <<"status", JStr(HexOne)>>>>)

ReceiptResults ==
    {ReceiptBase,
     Put(ReceiptBase, "gasUsed", JStr(HexBad)),
     Put(ReceiptBase, "logs", JArr(<<LogEntry, Put(LogEntry, "logIndex", JStr(HexBare))>>)),
     Put(ReceiptBase, "status", JNum(1))}

SimulationBase ==
    Obj(<<<<"bundleGasPrice", JStr(<<"4", "3">>)>>, <<"bundleHash", JStr(HashA)>>,
          <<"coinbaseDiff", JStr(<<"2", "7">>)>>,
          <<"results", JArr(<<Obj(<<<<"gasUsed", JNum(9)>>, <<"txHash", JStr(HashB)>>>>)>>)>>,
          <<"stateBlockNumber", JNum(12)>>, <<"totalGasUsed", JNum(9)>>>>)

SimulationResults ==
    {SimulationBase,
     Put(SimulationBase, "totalGasUsed", JStr(<<"9">>)),
     Put(SimulationBase, "results", JStr(<<>>)),
     Put(SimulationBase, "bundleHash", JNum(1))}

SubmissionResults ==
    {Obj(<<<<"bundleHash", JStr(HashA)>>>>), Obj(<<<<"bundleHash", JNum(1)>>>>), Obj(<<>>)}

EnvelopeHeads ==
    {Obj(<<>>), Obj(<<<<"id", JNum(1)>>, <<"jsonrpc", JStr(<<"2", ".", "0">>)>>>>)}

Envelopes(results) ==
    {Put(Put(h, "error", e), "result", r) :
        h \in EnvelopeHeads, e \in ErrorMembers, r \in results}

NonObjects == {JInvalid, JAbsent, JNull, JArr(<<>>), JStr(MsgHexInt), JNum(3)}

TransportErrors == {"connection refused", "timeout"}

(***************************************************************************)
(* BloxrouteSimulateBlock: the selection of a block's transactions         *)
(*                                                                         *)
(* Of a go-ethereum transaction the loop reads the outcome of types.Sender *)
(* (fromErr, from), tx.To() and the bytes EncodeRLP writes.  Addresses and *)
(* hashes are cut to two bytes and an encoding to its framing bytes and    *)
(* the start of its payload: the loop compares addresses for equality and  *)
(* reads no more of an encoding than its first byte.                       *)
(***************************************************************************)
MaxBlockTxs == 3
MaxCap == 2

\* The transactions a block is made of.  When types.Sender fails, from is
\* the zero address; a contract creation has a nil To().
TxPool ==
    {[fromErr |-> FALSE, from |-> "0xcafe", to |-> PtrTo("0x00a1"),
      encoded |-> <<185, 1, 0, 2, 171>>],
     [fromErr |-> FALSE, from |-> "0x00a1", to |-> PtrTo("0xcafe"),
      encoded |-> <<248, 2, 1, 2>>],
     [fromErr |-> FALSE, from |-> "0x00a1", to |-> PtrTo("0x00a1"),
      encoded |-> <<131, 2, 1, 2>>],
     [fromErr |-> TRUE, from |-> "0x0000", to |-> [isNil |-> TRUE, v |-> ""],
      encoded |-> <<184, 2, 2, 205>>],
     [fromErr |-> TRUE, from |-> "0x0000", to |-> PtrTo("0xcafe"),
      encoded |-> <<184, 2, 1, 239>>]}

\* The blocks: number 26 on a parent of hash 00ab, mined by 0xcafe or by
\* the zero address.
SimBlocks ==
    {[number |-> 26, parentHash |-> <<0, 171>>, coinbase |-> c, transactions |-> ts] :
        c \in {"0xcafe", "0x0000"},
        ts \in UNION {[1..k -> TxPool] : k \in 0..MaxBlockTxs}}

\* TxToRlp: the bytes of EncodeRLP in lowercase hexadecimal.
TxToRlp(tx) == SprintfXBytes(tx.encoded)

\* The sender test that takes a failed recovery for a match.
txIsFromCoinbase_IgnoreErr(tx, block) == tx.from = block.coinbase

txIsFromCoinbase(tx, block) == ~tx.fromErr /\ tx.from = block.coinbase

\* The recipient test that takes a missing recipient for the coinbase.
txIsToCoinbase_NilMatches(tx, block) == tx.to.isNil \/ tx.to.v = block.coinbase

txIsToCoinbase(tx, block) == ~tx.to.isNil /\ tx.to.v = block.coinbase

\* The stripping that takes the frame of b9 to be as long as the one of b8.
StripRlp_ShortFrame(rlp) ==
    IF SubSeq(rlp, 1, 2) \in {<<"b", "9">>, <<"b", "8">>}
    THEN SubSeq(rlp, 5, Len(rlp))
    ELSE rlp

\* "Might need to strip beginning bytes": rlp[6:] after b9, rlp[4:] after
\* b8, else rlp as it is.
StripRlp(rlp) ==
    IF SubSeq(rlp, 1, 2) = <<"b", "9">> THEN SubSeq(rlp, 7, Len(rlp))
    ELSE IF SubSeq(rlp, 1, 2) = <<"b", "8">> THEN SubSeq(rlp, 5, Len(rlp))
    ELSE rlp

\* The break that takes a cap of 0 for a cap.
LoopBreaks_NoZero(maxTx, txs) == Len(txs) >= maxTx

\* if maxTx > 0 && len(txs) == maxTx { break }
LoopBreaks(maxTx, txs) == maxTx > 0 /\ Len(txs) = maxTx

\* common.Hash.Hex: 0x and every byte of the hash.
HashHex(h) == <<"0", "x">> \o SprintfXBytes(h)

\* The request on the state of the block itself.
SimulateBlockParams_OwnNumber(block, txs) ==
    [Transaction |-> txs,
     BlockNumber |-> <<"0", "x">> \o SprintfX(block.number),
     StateBlockNumber |-> <<"0", "x">> \o SprintfX(block.number)]

\* params of BloxrouteSimulateBlock, a BloxrouteSimulateBundleRequest.
SimulateBlockParams(block, txs) ==
    [Transaction |-> txs,
     BlockNumber |-> <<"0", "x">> \o SprintfX(block.number),
     StateBlockNumber |-> HashHex(block.parentHash)]

\* json.Marshal of a BloxrouteSimulateBundleRequest whose Timestamp is 0:
\* state_block_number and timestamp are left out when empty.
MarshalSimulateBundleRequest(params) ==
    Put(Obj(<<<<"transaction",
                JArr([i \in 1..Len(params.Transaction) |->
                        JStr(params.Transaction[i])])>>,
              <<"block_number", JStr(params.BlockNumber)>>>>),
        "state_block_number",
        IF params.StateBlockNumber = <<>> THEN JAbsent
        ELSE JStr(params.StateBlockNumber))

\* No block is being simulated.
NoSim ==
    [stage |-> "none",
     block |-> [number |-> 0, parentHash |-> <<>>, coinbase |-> "", transactions |-> <<>>],
     maxTx |-> 0, next |-> 1, txs |-> <<>>, log |-> <<>>]

(***************************************************************************)
(* State                                                                   *)
(***************************************************************************)
VARIABLES
    pc,      \* where the one invocation in progress stands
    inv,     \* the operation invoked and its arguments
    wire,    \* the request that was posted
    posts,   \* the POSTs issued by this invocation
    reply,   \* what the transport gave back
    ret,     \* what Call or CallWithBloxrouteAuthHeader returned
    out,     \* what the operation returned to its caller
    codec,   \* a value on its way through the codec of helpers.go
    sim,     \* BloxrouteSimulateBlock: the block, the cap and the loop's state
    rpc      \* the FlashXRoute the caller constructed

vars == <<pc, inv, wire, posts, reply, ret, out, codec, sim, rpc>>
callVars == <<pc, inv, wire, posts, reply, ret, out>>

Invocation(op, method, params, auth, withTransactions) ==
    [op |-> op, method |-> method, params |-> params, auth |-> auth,
     withTransactions |-> withTransactions]

NoInv == Invocation("none", "", <<>>, "", FALSE)
NoWire == [sent |-> FALSE, via |-> "", auth |-> "", body |-> NoRequest]

\* The requesters: the one New sets, one a caller injects, and the one Call
\* and CallWithBloxrouteAuthHeader make for each request.
DefaultClient == "http.DefaultClient"
CustomClient == "custom"
TimeoutClient == "&http.Client{Timeout: rpc.Timeout}"

\* The option WithHttpClient(client), applied to the client under
\* construction.
WithHttpClient(client, r) == [r EXCEPT !.client = client]

\* New: the defaults, then the options in their order.  An option list
\* holds the requesters its WithHttpClient options carry.
New(options) ==
    LET RECURSIVE apply(_, _)
        apply(r, k) == IF k > Len(options) THEN r
                       ELSE apply(WithHttpClient(options[k], r), k + 1)
    IN  apply([client |-> DefaultClient], 1)

OptionLists == {<<>>, <<CustomClient>>}

\* The local httpClient of Call and of CallWithBloxrouteAuthHeader, through
\* which the request is sent.
httpClient(r) == TimeoutClient

AuthHeader == "YTpi"

\* The operations that go through CallWithBloxrouteAuthHeader; the others
\* go through Call.
AuthOps ==
    {"CallWithBloxrouteAuthHeader", "BloxrouteSimulateBundle",
     "BloxrouteBrmSimulateBundle", "BloxrouteSubmitBundle",
     "BloxrouteBrmSubmitBundle", "BloxrouteSimulateBlock"}

GetTransactionOps ==
    {"EthGetTransactionByHash", "EthGetTransactionByBlockHashAndIndex",
     "EthGetTransactionByBlockNumberAndIndex"}

GetBlockOps == {"EthGetBlockByHash", "EthGetBlockByNumber"}

\* BloxrouteSimulateBlock ends in a call of BloxrouteSimulateBundle.
SimulateOps ==
    {"BloxrouteSimulateBundle", "BloxrouteBrmSimulateBundle", "BloxrouteSimulateBlock"}

SubmitOps == {"BloxrouteSubmitBundle", "BloxrouteBrmSubmitBundle"}

BundleRequest ==
    Obj(<<<<"transaction", JArr(<<JStr(HashA)>>)>>, <<"block_number", JStr(HexOne)>>>>)

\* The invocations a caller can make, each operation with the method name
\* and the parameters its code passes on.
Invocations ==
    {Invocation("Call", "eth_call", ps, "", FALSE) : ps \in ParamLists}
    \cup
    {Invocation("CallWithBloxrouteAuthHeader", "blxr_tx", ps, AuthHeader, FALSE) :
        ps \in ParamLists}
    \cup
    {Invocation("EthSyncing", "eth_syncing", <<>>, "", FALSE)}
    \cup
    {Invocation("EthGetBlockByHash", "eth_getBlockByHash",
                <<JStr(HashA), JBool(w)>>, "", w) : w \in BOOLEAN}
    \cup
    {Invocation("EthGetBlockByNumber", "eth_getBlockByNumber",
                <<JStr(IntToHex(1)), JBool(w)>>, "", w) : w \in BOOLEAN}
    \cup
    {Invocation("EthGetTransactionByHash", "eth_getTransactionByHash",
                <<JStr(HashA)>>, "", FALSE),
     Invocation("EthGetTransactionByBlockHashAndIndex",
                "eth_getTransactionByBlockHashAndIndex",
                <<JStr(HashB), JStr(IntToHex(0))>>, "", FALSE),
     Invocation("EthGetTransactionByBlockNumberAndIndex",
                "eth_getTransactionByBlockNumberAndIndex",
                <<JStr(IntToHex(1)), JStr(IntToHex(0))>>, "", FALSE),
     Invocation("EthGetTransactionReceipt", "eth_getTransactionReceipt",
                <<JStr(HashA)>>, "", FALSE),
     Invocation("BloxrouteSimulateBundle", "blxr_simulate_bundle",
                <<BundleRequest>>, AuthHeader, FALSE),
     Invocation("BloxrouteBrmSimulateBundle", "simulate_arb_only_bundle",
                <<BundleRequest>>, AuthHeader, FALSE),
     Invocation("BloxrouteSubmitBundle", "blxr_submit_bundle",
                <<BundleRequest>>, AuthHeader, FALSE),
     Invocation("BloxrouteBrmSubmitBundle", "submit_arb_only_bundle",
                <<BundleRequest>>, AuthHeader, FALSE)}

\* The results a node or relay may give for an operation.
Results(op) ==
    ResultMembers \cup
    (CASE op \in GetTransactionOps -> TransactionResults
       [] op \in GetBlockOps -> BlockResults
       [] op = "EthGetTransactionReceipt" -> ReceiptResults
       [] op \in SimulateOps -> SimulationResults
       [] op \in SubmitOps -> SubmissionResults
       [] OTHER -> {})

Bodies(op) == NonObjects \cup Envelopes(Results(op))

\* The codec at rest: no value under way.
NoParse == [val |-> 0, err |-> "nil"]
Codec(kind, stage, n, s, by, r) ==
    [kind |-> kind, stage |-> stage, n |-> n, s |-> s, by |-> by, r |-> r]
NoCodec == Codec("none", "input", 0, <<>>, "", NoParse)

CallInit ==
    /\ pc = "idle"
    /\ inv = NoInv
    /\ wire = NoWire
    /\ posts = 0
    /\ reply = NoReply
    /\ ret = NoReturn
    /\ out = NoOut

Init ==
    /\ CallInit
    /\ codec = NoCodec
    /\ sim = NoSim
    /\ \E options \in OptionLists : rpc = New(options)

(***************************************************************************)
(* Actions                                                                 *)
(***************************************************************************)
\* What the operation op returns once its call has returned r.
OperationReturn(i, r) ==
    CASE i.op = "EthSyncing" -> EthSyncing(r)
      [] i.op \in GetBlockOps -> getBlock(i.withTransactions, r)
      [] i.op \in GetTransactionOps -> getTransaction(r)
      [] i.op = "EthGetTransactionReceipt" -> EthGetTransactionReceipt(r)
      [] i.op \in SimulateOps -> BloxrouteSimulateBundle(r)
      [] i.op \in SubmitOps -> BloxrouteSubmitBundle(r)
      [] OTHER -> Returns(r.err.kind = "nil", r.result, r.err)

\* The caller invokes an operation: the envelope is built and posted, in
\* one attempt.  Building it panics when there is no parameter.
Invoke(i) ==
    /\ pc \in {"idle", "done"}
    /\ inv' = i
    /\ reply' = NoReply
    /\ ret' = NoReturn
    /\ out' = NoOut
    /\ IF HasParams(i.params)
       THEN /\ wire' = [sent |-> TRUE, via |-> httpClient(rpc), auth |-> i.auth,
                        body |-> rpcRequest(i.method, i.params)]
            /\ posts' = 1
            /\ pc' = "posted"
       ELSE /\ wire' = NoWire
            /\ posts' = 0
            /\ pc' = "panic"
    /\ UNCHANGED <<codec, sim, rpc>>

\* httpClient.Do returns an error.
DoFails(e) ==
    /\ pc = "posted"
    /\ reply' = DoFailed(e)
    /\ pc' = "replied"
    /\ UNCHANGED <<inv, wire, posts, ret, out, codec, sim, rpc>>

\* ioutil.ReadAll of the response body returns an error.
ReadFails(e) ==
    /\ pc = "posted"
    /\ reply' = ReadFailed(e)
    /\ pc' = "replied"
    /\ UNCHANGED <<inv, wire, posts, ret, out, codec, sim, rpc>>

\* The response arrives with body b.
Responds(b) ==
    /\ pc = "posted"
    /\ reply' = Replied(b)
    /\ pc' = "replied"
    /\ UNCHANGED <<inv, wire, posts, ret, out, codec, sim, rpc>>

\* Return with one more attempt after a failure of the transport.
Return_Retry ==
    /\ pc = "replied"
    /\ IF reply.kind \in {"doErr", "readErr"} /\ posts < 2
       THEN /\ posts' = posts + 1
            /\ pc' = "posted"
            /\ reply' = NoReply
            /\ UNCHANGED <<ret, out>>
       ELSE /\ LET r == IF inv.op \in AuthOps
                        THEN CallWithBloxrouteAuthHeaderReturn(reply)
                        ELSE CallReturn(reply)
               IN  /\ ret' = r
                   /\ out' = OperationReturn(inv, r)
            /\ pc' = "done"
            /\ UNCHANGED <<posts, reply>>
    /\ UNCHANGED <<inv, wire, codec, sim, rpc>>

\* The rest of the operation: the reply is classified, the call returns,
\* and the operation decodes the result and returns.
Return ==
    /\ pc = "replied"
    /\ LET r == IF inv.op \in AuthOps
                THEN CallWithBloxrouteAuthHeaderReturn(reply)
                ELSE CallReturn(reply)
       IN  /\ ret' = r
           /\ out' = OperationReturn(inv, r)
    /\ pc' = "done"
    /\ UNCHANGED <<inv, wire, posts, reply, codec, sim, rpc>>

Next ==
    \/ \E i \in Invocations : Invoke(i)
    \/ \E e \in TransportErrors : DoFails(e)
    \/ \E e \in TransportErrors : ReadFails(e)
    \/ \E b \in Bodies(inv.op) : Responds(b)
    \/ Return

Spec == Init /\ [][Next]_vars

(***************************************************************************)
(* BloxrouteSimulateBlock on its own: a block and a cap are given, the     *)
(* loop goes through the transactions one pass at a time, and the request  *)
(* is handed to BloxrouteSimulateBundle, whose return is the operation's.  *)
(***************************************************************************)
\* What the relay may answer to the simulation.
SimBodies ==
    {JInvalid,
     Obj(<<<<"error", JStr(MsgHexInt)>>>>),
     Obj(<<<<"id", JNum(1)>>, <<"result", SimulationBase>>>>)}

SimInit ==
    /\ pc = "select"
    /\ inv = Invocation("BloxrouteSimulateBlock", "blxr_simulate_bundle", <<>>,
                        AuthHeader, FALSE)
    /\ wire = NoWire
    /\ posts = 0
    /\ reply = NoReply
    /\ ret = NoReturn
    /\ out = NoOut
    /\ codec = NoCodec
    /\ rpc = New(<<>>)
    /\ \E b \in SimBlocks, m \in (0 - 1)..MaxCap :
          sim = [stage |-> "loop", block |-> b, maxTx |-> m, next |-> 1,
                 txs |-> <<>>, log |-> <<>>]

\* One pass of the loop, over the transaction the range stands at.  log
\* keeps what the pass did with it.
SelectStep ==
    /\ pc = "select" /\ sim.stage = "loop"
    /\ sim.next <= Len(sim.block.transactions)
    /\ LET tx == sim.block.transactions[sim.next]
           txs == Append(sim.txs, <<"0", "x">> \o StripRlp(TxToRlp(tx)))
       IN  IF txIsFromCoinbase(tx, sim.block)
           THEN sim' = [sim EXCEPT !.next = @ + 1, !.log = Append(@, "from")]
           ELSE IF txIsToCoinbase(tx, sim.block)
           THEN sim' = [sim EXCEPT !.next = @ + 1, !.log = Append(@, "to")]
           ELSE sim' = [sim EXCEPT !.next = @ + 1, !.log = Append(@, "sent"),
                                   !.txs = txs,
                                   !.stage = IF LoopBreaks(sim.maxTx, txs)
                                             THEN "broke" ELSE "loop"]
    /\ UNCHANGED <<pc, inv, wire, posts, reply, ret, out, codec, rpc>>

\* After the loop: params is built and BloxrouteSimulateBundle posts it
\* through CallWithBloxrouteAuthHeader.
SimulateBlockSend ==
    /\ pc = "select"
    /\ \/ sim.stage = "broke"
       \/ sim.stage = "loop" /\ sim.next > Len(sim.block.transactions)
    /\ inv' = [inv EXCEPT !.params =
                  <<MarshalSimulateBundleRequest(SimulateBlockParams(sim.block, sim.txs))>>]
    /\ wire' = [sent |-> TRUE, via |-> httpClient(rpc), auth |-> inv.auth,
                body |-> rpcRequest(inv.method, inv'.params)]
    /\ posts' = posts + 1
    /\ pc' = "posted"
    /\ sim' = [sim EXCEPT !.stage = "sent"]
    /\ UNCHANGED <<reply, ret, out, codec, rpc>>

SimNext ==
    \/ SelectStep
    \/ SimulateBlockSend
    \/ \E e \in TransportErrors : DoFails(e)
    \/ \E e \in TransportErrors : ReadFails(e)
    \/ \E b \in SimBodies : Responds(b)
    \/ Return

SimSpec == SimInit /\ [][SimNext]_vars

(***************************************************************************)
(* The codec on its own: a value is drawn, formatted and parsed back, or a *)
(* string is drawn and parsed.                                             *)
(***************************************************************************)
Alphabet == {"0", "1", "a", "F", "g", "x", "-", "+"}

Strings == UNION {[1..k -> Alphabet] : k \in 0..MaxStrLen}

\* Every string, bare and behind the prefix.
CodecStrings == Strings \cup {<<"0", "x">> \o s : s \in Strings}

IntInputs == MinInt..MaxInt

BigInputs == (0 - 16)..MaxBig

CodecInit ==
    /\ CallInit
    /\ sim = NoSim
    /\ rpc = New(<<>>)
    /\ \/ \E n \in IntInputs : codec = Codec("int", "input", n, <<>>, "", NoParse)
       \/ \E n \in BigInputs : codec = Codec("big", "input", n, <<>>, "", NoParse)
       \/ \E s \in CodecStrings : codec = Codec("str", "input", 0, s, "", NoParse)

IntToHexStep ==
    /\ codec.kind = "int" /\ codec.stage = "input"
    /\ codec' = [codec EXCEPT !.stage = "formatted", !.s = IntToHex(codec.n)]
    /\ UNCHANGED <<callVars, sim, rpc>>

BigToHexStep ==
    /\ codec.kind = "big" /\ codec.stage = "input"
    /\ codec' = [codec EXCEPT !.stage = "formatted", !.s = BigToHex(codec.n)]
    /\ UNCHANGED <<callVars, sim, rpc>>

\* ParseInt of a formatted native integer, or of a string as it came.
ParseIntStep ==
    /\ \/ codec.kind = "int" /\ codec.stage = "formatted"
       \/ codec.kind = "str" /\ codec.stage = "input"
    /\ codec' = [codec EXCEPT !.stage = "parsed", !.by = "ParseInt",
                              !.r = ParseInt(codec.s)]
    /\ UNCHANGED <<callVars, sim, rpc>>

ParseBigIntStep ==
    /\ \/ codec.kind = "big" /\ codec.stage = "formatted"
       \/ codec.kind = "str" /\ codec.stage = "input"
    /\ codec' = [codec EXCEPT !.stage = "parsed", !.by = "ParseBigInt",
                              !.r = ParseBigInt(codec.s)]
    /\ UNCHANGED <<callVars, sim, rpc>>

\* A string reaches hexInt.UnmarshalJSON as a JSON string, in its quotes.
HexIntUnmarshalStep ==
    /\ codec.kind = "str" /\ codec.stage = "input"
    /\ LET u == hexIntUnmarshalJSON(RawText(JStr(codec.s)))
       IN  codec' = [codec EXCEPT !.stage = "parsed", !.by = "hexInt.UnmarshalJSON",
                        !.r = [val |-> u.v,
                               err |-> IF u.err.kind = "nil" THEN "nil" ELSE u.err.id]]
    /\ UNCHANGED <<callVars, sim, rpc>>

CodecNext ==
    \/ IntToHexStep
    \/ BigToHexStep
    \/ ParseIntStep
    \/ ParseBigIntStep
    \/ HexIntUnmarshalStep

CodecSpec == CodecInit /\ [][CodecNext]_vars

(***************************************************************************)
(* Properties                                                              *)
(***************************************************************************)
\* Equality of two JSON values, decided on the type first.
JsonEq(a, b) == a.t = b.t /\ a = b

\* The body is the flat shape of the relay: an object whose "error" is a
\* non-empty string.
FlatShape(body) ==
    /\ body.t = "obj"
    /\ Member(body, "error").t = "str"
    /\ Member(body, "error").s # <<>>

\* The body is a standard envelope: an object whose id, jsonrpc and error,
\* where present, have the types of the envelope.
IsEnvelope(body) ==
    /\ body.t = "obj"
    /\ Member(body, "id").t \in {"absent", "null", "num"}
    /\ Member(body, "jsonrpc").t \in {"absent", "null", "str"}
    /\ \/ Member(body, "error").t \in {"absent", "null"}
       \/ /\ Member(body, "error").t = "obj"
          /\ Member(Member(body, "error"), "code").t \in {"absent", "null", "num"}
          /\ Member(Member(body, "error"), "message").t \in {"absent", "null", "str"}

EnvelopeCode(body) ==
    LET c == Member(Member(body, "error"), "code")
    IN  IF c.t = "num" THEN c.n ELSE 0

EnvelopeMessage(body) ==
    LET m == Member(Member(body, "error"), "message")
    IN  IF m.t = "str" THEN m.s ELSE <<>>

IsRelayError(e, msg) ==
    e.kind = "wrapped" /\ e.is = "ErrRelayErrorResponse" /\ e.msg = msg

\* C1: in the authenticated call, a body of the flat shape fails the call
\* with a relay error carrying exactly the string of "error", no result, and
\* the only decode that ran is the one of the flat shape: the standard
\* envelope was not tried, whatever else the body carries.
C1_FlatShapeFirst ==
    (pc = "done" /\ inv.op \in AuthOps /\ reply.kind = "body" /\ FlatShape(reply.body))
    => /\ IsRelayError(ret.err, Member(reply.body, "error").s)
       /\ ret.result.t = "absent"
       /\ ret.decodes = <<"RelayErrorResponse">>

C1_Witness ==
    /\ pc = "done" /\ inv.op = "CallWithBloxrouteAuthHeader"
    /\ reply.kind = "body" /\ FlatShape(reply.body)
    /\ Has(reply.body, "result") /\ Has(reply.body, "id")
    /\ IsRelayError(ret.err, MsgHexInt)

\* C2: in the authenticated call, a body that is not of the flat shape is
\* decoded as the standard envelope, as Call decodes it: where Call returns
\* a result the call returns the same result, where Call fails to decode it
\* fails with the same error, and where Call fails with the envelope's
\* RpcError it fails with a relay error carrying the envelope's message,
\* never with an RpcError.
C2_EnvelopeAfterFlatShape ==
    (pc = "done" /\ inv.op \in AuthOps /\ reply.kind = "body" /\ ~FlatShape(reply.body))
    => /\ ret.decodes = <<"RelayErrorResponse", "rpcResponse">>
       /\ ret.err.kind # "RpcError"
       /\ LET c == CallReturn(reply)
          IN  CASE c.err.kind = "nil" ->
                       ret.err.kind = "nil" /\ JsonEq(ret.result, c.result)
                [] c.err.kind = "RpcError" ->
                       IsRelayError(ret.err, c.err.message) /\ ret.result.t = "absent"
                [] OTHER -> ret.err = c.err /\ ret.result.t = "absent"
       /\ (IsEnvelope(reply.body) /\ Member(reply.body, "error").t = "obj")
          => IsRelayError(ret.err, EnvelopeMessage(reply.body))

C2_Witness ==
    /\ pc = "done" /\ inv.op = "CallWithBloxrouteAuthHeader"
    /\ reply.kind = "body" /\ IsEnvelope(reply.body)
    /\ Member(reply.body, "error").t = "obj"
    /\ IsRelayError(ret.err, MsgNotFound)

\* C3: in the plain call, a body that is a standard envelope with an error
\* object fails the call with the RpcError of that code and message and no
\* result; with no error, or a null one, the call returns the result member
\* as it stands on the wire.
C3_PlainCallEnvelope ==
    (pc = "done" /\ inv.op \notin AuthOps /\ reply.kind = "body" /\ IsEnvelope(reply.body))
    => IF Member(reply.body, "error").t = "obj"
       THEN /\ ret.err.kind = "RpcError"
            /\ ret.err.code = EnvelopeCode(reply.body)
            /\ ret.err.message = EnvelopeMessage(reply.body)
            /\ ret.result.t = "absent"
       ELSE /\ ret.err.kind = "nil"
            /\ JsonEq(ret.result, Member(reply.body, "result"))

C3_Witness ==
    /\ pc = "done" /\ inv.op = "Call"
    /\ reply.kind = "body" /\ IsEnvelope(reply.body)
    /\ Member(reply.body, "error").t = "obj"
    /\ ret.err.kind = "RpcError" /\ ret.err.code = 0 - 32601
    /\ ret.err.message = MsgNotFound

\* C4: an invocation posts at most once, an invocation that returned has
\* posted exactly once whatever the reply was, and a failure of the
\* transport (of the POST or of reading the body) is returned as the very
\* error the transport gave, with no result.
C4_SingleAttempt ==
    /\ posts <= 1
    /\ pc = "done" => posts = 1
    /\ (pc = "done" /\ reply.kind \in {"doErr", "readErr"})
       => /\ ret.err.kind = "transport"
          /\ ret.err = reply.err
          /\ ret.result.t = "absent"
          /\ out.err = reply.err

C4_Witness ==
    /\ pc = "done" /\ reply.kind = "doErr" /\ posts = 1
    /\ ret.err = TransportErr("timeout")

\* The operations that return a record.
RecordOps ==
    {"EthSyncing"} \cup GetBlockOps \cup GetTransactionOps
    \cup {"EthGetTransactionReceipt"} \cup SimulateOps \cup SubmitOps

\* C5: an operation that returns an error returns no record with it, or a
\* record entirely at its zero value.
C5_NoPartialResults ==
    (pc = "done" /\ inv.op \in RecordOps /\ out.err.kind # "nil")
    => (~out.present \/ out.val = ZeroRecord(inv.op))

\* C6: building the envelope never panics, and the body posted is
\* {id: 1, jsonrpc: "2.0", method, params} with params the array of all the
\* caller's parameters in their order.
C6_RequestEnvelope ==
    /\ pc # "panic"
    /\ wire.sent
       => /\ wire.body.id = 1
          /\ wire.body.jsonrpc = "2.0"
          /\ wire.body.method = inv.method
          /\ wire.body.params.t = "arr"
          /\ Len(wire.body.params.a) = Len(inv.params)
          /\ \A k \in 1..Len(inv.params) :
                JsonEq(wire.body.params.a[k], inv.params[k])

\* C7: a non-negative native integer formatted by IntToHex and parsed back
\* by ParseInt gives the integer, without error.
C7_IntRoundTrip ==
    (codec.kind = "int" /\ codec.stage = "parsed" /\ codec.n >= 0)
    => (codec.r.err = "nil" /\ codec.r.val = codec.n)

C7_Witness ==
    /\ codec.kind = "int" /\ codec.stage = "parsed" /\ codec.by = "ParseInt"
    /\ codec.n = MaxInt /\ codec.r.val = MaxInt

\* C8: a non-negative big integer formatted by BigToHex and parsed back by
\* ParseBigInt gives the integer, without error; zero and the integers
\* whose first byte has a zero high nibble included.
C8_BigRoundTrip ==
    (codec.kind = "big" /\ codec.stage = "parsed" /\ codec.n >= 0)
    => (codec.r.err = "nil" /\ codec.r.val = codec.n)

C8_Witness ==
    /\ codec.kind = "big" /\ codec.stage = "parsed" /\ codec.by = "ParseBigInt"
    /\ codec.n = 256 /\ codec.s = <<"0", "x", "1", "0", "0">>
    /\ codec.r.val = 256

LowerHexDigits ==
    {"0", "1", "2", "3", "4", "5", "6", "7", "8", "9", "a", "b", "c", "d", "e", "f"}

\* C9: IntToHex and BigToHex of a non-negative integer give 0x and then
\* lowercase hexadecimal digits, at least one, the first of them not 0
\* unless the integer is zero, which gives exactly 0x0.
C9_CanonicalHex ==
    (codec.kind \in {"int", "big"} /\ codec.stage # "input" /\ codec.n >= 0)
    => LET digits == SubSeq(codec.s, 3, Len(codec.s))
       IN  /\ HasPrefix(codec.s, <<"0", "x">>)
           /\ digits # <<>>
           /\ \A k \in 1..Len(digits) : digits[k] \in LowerHexDigits
           /\ IF codec.n = 0 THEN digits = <<"0">> ELSE digits[1] # "0"

C9_Witness ==
    /\ codec.kind = "big" /\ codec.stage = "formatted"
    /\ codec.n = 0 /\ codec.s = <<"0", "x", "0">>

\* C10: the string 0x, the prefix with no digit after it, fails to parse,
\* through ParseInt and through hexInt.UnmarshalJSON, with strconv's syntax
\* error; it never parses as zero.
C10_BarePrefixFails ==
    (codec.kind = "str" /\ codec.stage = "parsed" /\ codec.s = <<"0", "x">>
        /\ codec.by \in {"ParseInt", "hexInt.UnmarshalJSON"})
    => codec.r.err = "ErrSyntax"

C10_Witness ==
    /\ codec.kind = "str" /\ codec.stage = "parsed" /\ codec.s = <<"0", "x">>
    /\ codec.by = "ParseInt" /\ codec.r.err = "ErrSyntax"

HexDigitChars == LowerHexDigits \cup {"A", "B", "C", "D", "E", "F"}

\* C11: ParseInt of a string whose remainder, after one 0x prefix is
\* stripped, holds a character that is not a hexadecimal digit (a leading
\* sign and a second 0x included) fails with strconv's syntax error; it
\* succeeds only on a remainder made of hexadecimal digits alone.
C11_MalformedHex ==
    (codec.kind = "str" /\ codec.stage = "parsed" /\ codec.by = "ParseInt")
    => LET rem == IF Len(codec.s) >= 2 /\ codec.s[1] = "0" /\ codec.s[2] = "x"
                  THEN SubSeq(codec.s, 3, Len(codec.s))
                  ELSE codec.s
           allHex == \A k \in 1..Len(rem) : rem[k] \in HexDigitChars
       IN  /\ ~allHex => codec.r.err = "ErrSyntax"
           /\ codec.r.err = "nil" => allHex

\* C12: EthSyncing makes its sync-status call, and when the node answers
\* with an envelope whose result is the boolean false and no error, it
\* returns without error the Syncing record with IsSyncing false and the
\* three block numbers 0 (the record no decode of a sync object has
\* touched: that decode sets IsSyncing, or fails on a boolean).
C12_SyncingFalse ==
    inv.op = "EthSyncing"
    => /\ pc # "panic"
       /\ (pc = "done" /\ reply.kind = "body" /\ IsEnvelope(reply.body)
             /\ Member(reply.body, "error").t \in {"absent", "null"}
             /\ Member(reply.body, "result").t = "bool"
             /\ ~Member(reply.body, "result").b)
          => /\ out.present /\ out.err.kind = "nil"
             /\ out.val = [IsSyncing |-> FALSE, StartingBlock |-> 0,
                           CurrentBlock |-> 0, HighestBlock |-> 0]

\* What a member of a wire object decodes to when it is well formed: a
\* string as it stands, a hexadecimal quantity as its number, an array of
\* strings as their sequence; nothing when the member is missing.
WireStr(j, k) == IF Member(j, k).t = "str" THEN Member(j, k).s ELSE <<>>
WireInt(j, k) == IF Member(j, k).t = "str" THEN ParseInt(Member(j, k).s).val ELSE 0
WireBig(j, k) == IF Member(j, k).t = "str" THEN ParseBigInt(Member(j, k).s).val ELSE 0
WireStrs(j, k) ==
    IF Member(j, k).t = "arr"
    THEN [i \in 1..Len(Member(j, k).a) |-> Member(j, k).a[i].s]
    ELSE <<>>

\* The block result carries its transactions as hashes only.
HashOnly(j) ==
    /\ j.t = "obj"
    /\ Member(j, "transactions").t = "arr"
    /\ \A i \in 1..Len(Member(j, "transactions").a) :
          Member(j, "transactions").a[i].t = "str"

\* C13: a block result with k transaction hashes, decoded by the hash-only
\* decoder, gives a Block with exactly k Transaction records in the order
\* of the hashes, record i with Hash the i-th hash and every other field
\* zero or null, and with every header field as decoded from the wire.
C13_HashOnlyBlock ==
    (pc = "done" /\ inv.op \in GetBlockOps /\ ~inv.withTransactions
        /\ ret.err.kind = "nil" /\ HashOnly(ret.result) /\ out.err.kind = "nil")
    => LET j == ret.result
           hs == Member(j, "transactions").a
           b == out.val
       IN  /\ out.present
           /\ Len(b.Transactions) = Len(hs)
           /\ \A i \in 1..Len(hs) :
                 b.Transactions[i] =
                    [Hash |-> hs[i].s, Nonce |-> 0, BlockHash |-> <<>>,
                     BlockNumber |-> PtrNil, TransactionIndex |-> PtrNil,
                     From |-> <<>>, To |-> <<>>, Value |-> 0, Gas |-> 0,
                     GasPrice |-> 0, Input |-> <<>>]
           /\ b.Number = WireInt(j, "number")
           /\ b.Hash = WireStr(j, "hash")
           /\ b.ParentHash = WireStr(j, "parentHash")
           /\ b.Nonce = WireStr(j, "nonce")
           /\ b.Sha3Uncles = WireStr(j, "sha3Uncles")
           /\ b.LogsBloom = WireStr(j, "logsBloom")
           /\ b.TransactionsRoot = WireStr(j, "transactionsRoot")
           /\ b.StateRoot = WireStr(j, "stateRoot")
           /\ b.Miner = WireStr(j, "miner")
           /\ b.Difficulty = WireBig(j, "difficulty")
           /\ b.TotalDifficulty = WireBig(j, "totalDifficulty")
           /\ b.ExtraData = WireStr(j, "extraData")
           /\ b.Size = WireInt(j, "size")
           /\ b.GasLimit = WireInt(j, "gasLimit")
           /\ b.GasUsed = WireInt(j, "gasUsed")
           /\ b.Timestamp = WireInt(j, "timestamp")
           /\ b.Uncles = WireStrs(j, "uncles")

C13_Witness ==
    /\ pc = "done" /\ inv.op = "EthGetBlockByNumber" /\ ~inv.withTransactions
    /\ ret.err.kind = "nil" /\ HashOnly(ret.result) /\ out.err.kind = "nil"
    /\ out.present
    /\ Len(out.val.Transactions) = 2
    /\ out.val.Transactions[1].Hash = HashA
    /\ out.val.Transactions[2].Hash = HashB
    /\ out.val.Number = 1 /\ out.val.Difficulty = 256

\* The transaction pass k of the loop looked at, and the passes that
\* appended to the output.
PassTx(k) == sim.block.transactions[k]
SentPasses == {k \in 1..Len(sim.log) : sim.log[k] = "sent"}

\* C14: a pass skips its transaction for its sender exactly when the
\* recovery of the sender succeeded and the sender is the coinbase of the
\* block; a transaction whose recovery failed is never skipped for its
\* sender, and is skipped for its recipient when that is the coinbase.
C14_SenderRule ==
    \A k \in 1..Len(sim.log) :
        /\ sim.log[k] = "from"
           <=> (~PassTx(k).fromErr /\ PassTx(k).from = sim.block.coinbase)
        /\ PassTx(k).fromErr => sim.log[k] # "from"
        /\ (PassTx(k).fromErr /\ ~PassTx(k).to.isNil
              /\ PassTx(k).to.v = sim.block.coinbase)
           => sim.log[k] = "to"

C14_Witness ==
    \E k, l, m \in 1..Len(sim.log) :
        /\ sim.log[k] = "from" /\ PassTx(k).from = "0xcafe"
        /\ sim.log[l] = "sent" /\ PassTx(l).fromErr
        /\ sim.log[m] = "to" /\ PassTx(m).fromErr

\* C15: a transaction whose recipient is the coinbase of the block is
\* never appended to the output, a transaction without recipient is never
\* skipped for its recipient, and the output holds one string for each
\* pass that appended, and no other.
C15_RecipientRule ==
    /\ \A k \in 1..Len(sim.log) :
          /\ (~PassTx(k).to.isNil /\ PassTx(k).to.v = sim.block.coinbase)
             => sim.log[k] # "sent"
          /\ PassTx(k).to.isNil => sim.log[k] # "to"
    /\ Len(sim.txs) = Cardinality(SentPasses)

C15_Witness ==
    \E k, l \in 1..Len(sim.log) :
        /\ sim.log[k] = "to" /\ PassTx(k).to.v = "0xcafe" /\ ~PassTx(k).fromErr
        /\ sim.log[l] = "sent" /\ PassTx(l).to.isNil

\* The pass that appended the n-th string of the output.
NthSent(n) ==
    CHOOSE k \in SentPasses : Cardinality({j \in SentPasses : j <= k}) = n

NotSkipped(block) ==
    LET keep(tx) ==
            /\ ~(~tx.fromErr /\ tx.from = block.coinbase)
            /\ ~(~tx.to.isNil /\ tx.to.v = block.coinbase)
    IN  SelectSeq(block.transactions, keep)

ExpectedOutput(block, maxTx) ==
    LET S == NotSkipped(block)
        m == IF maxTx = 0 \/ Len(S) < maxTx THEN Len(S) ELSE maxTx
    IN  [n \in 1..m |-> <<"0", "x">> \o StripRlp(TxToRlp(S[n]))]

\* C17: with S the transactions no rule skips, in block order, the output
\* ends as the normalized encodings of all of S when maxTx is 0 and of the
\* first min(maxTx, |S|) of S when maxTx > 0; at every pass of the loop
\* the output collected so far is a prefix of that final output and, when
\* maxTx > 0, no longer than maxTx; the request posted carries it whole.
C17_OrderAndCap ==
    sim.maxTx >= 0
    => LET final == ExpectedOutput(sim.block, sim.maxTx)
       IN  /\ sim.maxTx > 0 => Len(sim.txs) <= sim.maxTx
           /\ Len(sim.txs) <= Len(final)
           /\ sim.txs = SubSeq(final, 1, Len(sim.txs))
           /\ sim.stage = "sent" => sim.txs = final

C17_Witness ==
    /\ sim.stage = "sent" /\ sim.maxTx = 1
    /\ Len(sim.block.transactions) = 3
    /\ sim.log = <<"from", "to", "sent">>
    /\ Len(NotSkipped(sim.block)) = 1
    /\ sim.txs = <<<<"0", "x", "8", "3", "0", "2", "0", "1", "0", "2">>>>

C19_EmptySubmissionResult ==
    (pc = "done" /\ inv.op \in SubmitOps /\ reply.kind = "body"
        /\ \/ reply.body.t = "absent"
           \/ /\ IsEnvelope(reply.body)
              /\ Member(reply.body, "error").t \in {"absent", "null"}
              /\ Member(reply.body, "result").t \in {"absent", "null"})
    => /\ out.err.kind = "nil"
       /\ out.present
       /\ out.val.BundleHash = <<>>

\* The member of a transaction result is null or missing, and is 0x0.
WireNull(j, k) == Member(j, k).t \in {"null", "absent"}
WireZero(j, k) == Member(j, k).t = "str" /\ Member(j, k).s = <<"0", "x", "0">>

\* C20: a transaction result whose blockNumber (transactionIndex) is null
\* or missing decodes to a Transaction whose BlockNumber (TransactionIndex)
\* is null, one whose member is 0x0 to a present 0, so that the two never
\* decode alike; and the pending transaction, well formed but for the two
\* nulls, decodes without error.
C20_PendingTransaction ==
    (pc = "done" /\ inv.op \in GetTransactionOps /\ ret.err.kind = "nil"
        /\ ret.result.t = "obj")
    => /\ out.present
       /\ JsonEq(ret.result, TxPending) => out.err.kind = "nil"
       /\ out.err.kind = "nil"
          => /\ WireNull(ret.result, "blockNumber") => out.val.BlockNumber.isNil
             /\ WireNull(ret.result, "transactionIndex")
                => out.val.TransactionIndex.isNil
             /\ WireZero(ret.result, "blockNumber")
                => (~out.val.BlockNumber.isNil /\ out.val.BlockNumber.v = 0)
             /\ WireZero(ret.result, "transactionIndex")
                => (~out.val.TransactionIndex.isNil
                    /\ out.val.TransactionIndex.v = 0)

C20_Witness ==
    /\ pc = "done" /\ inv.op = "EthGetTransactionByHash"
    /\ ret.err.kind = "nil" /\ JsonEq(ret.result, TxPending)
    /\ out.err.kind = "nil"
    /\ out.val.BlockNumber.isNil /\ out.val.TransactionIndex.isNil
    /\ out.val.Hash = HashA /\ out.val.Gas = 16

\* C21: every request of Call and of CallWithBloxrouteAuthHeader is sent
\* through the requester the client was constructed with: the one given to
\* WithHttpClient when there was one, and otherwise a requester of the
\* package's own making.
C21_RequesterInjection ==
    wire.sent
    => IF rpc.client = DefaultClient
       THEN wire.via \in {DefaultClient, TimeoutClient}
       ELSE wire.via = rpc.client

\* The transactions of a block result as they stand on the wire; they hold
\* an object, and hold a string.
WireTxs(j) ==
    IF Member(j, "transactions").t = "arr" THEN Member(j, "transactions").a ELSE <<>>
HoldsObject(j) == \E i \in 1..Len(WireTxs(j)) : WireTxs(j)[i].t = "obj"
HoldsString(j) == \E i \in 1..Len(WireTxs(j)) : WireTxs(j)[i].t = "str"

\* C22: when the call of getBlock succeeds with the result null, the
\* operation returns no block and no error, whatever the flag; for another
\* result the decoder is the one the flag names, whatever the payload
\* holds: asked for hashes, a block of transaction objects is an error and
\* never a block, asked for transactions, a block of hashes is an error
\* and never a block, and a block returned has each transaction decoded
\* as the flag says (a hash alone, or the whole object).
C22_BlockDecoderByFlag ==
    (pc = "done" /\ inv.op \in GetBlockOps /\ ret.err.kind = "nil")
    => /\ ret.result.t = "null"
          => (~out.present /\ out.err.kind = "nil" /\ out.val = NoRecord)
       /\ (ret.result.t = "obj" /\ ~inv.withTransactions /\ HoldsObject(ret.result))
          => (~out.present /\ out.err.kind # "nil")
       /\ (ret.result.t = "obj" /\ inv.withTransactions /\ HoldsString(ret.result))
          => (~out.present /\ out.err.kind # "nil")
       /\ (ret.result.t = "obj" /\ out.present)
          => /\ out.err.kind = "nil"
             /\ Len(out.val.Transactions) = Len(WireTxs(ret.result))
             /\ \A i \in 1..Len(out.val.Transactions) :
                   /\ out.val.Transactions[i].Hash
                         = IF inv.withTransactions
                           THEN WireStr(WireTxs(ret.result)[i], "hash")
                           ELSE WireTxs(ret.result)[i].s
                   /\ ~inv.withTransactions
                      => out.val.Transactions[i].From = <<>>

C22_Witness ==
    /\ pc = "done" /\ inv.op = "EthGetBlockByHash" /\ inv.withTransactions
    /\ reply.kind = "body" /\ IsEnvelope(reply.body)
    /\ Member(reply.body, "result").t = "null"
    /\ ret.err.kind = "nil" /\ ret.result.t = "null"
    /\ ~out.present /\ out.err.kind = "nil"

\* C23: EthSyncing asks the node for its sync status, and a Syncing record
\* it returns without error has IsSyncing true exactly when the node's
\* result was something other than the boolean false; StartingBlock,
\* CurrentBlock and HighestBlock are then the numbers of the wire members
\* startingBlock, currentBlock and highestBlock, and no member of the
\* result sets IsSyncing.
C23_SyncingFlag ==
    inv.op = "EthSyncing"
    => /\ pc # "panic"
       /\ (pc = "done" /\ out.present /\ out.err.kind = "nil")
          => /\ out.val.IsSyncing
                <=> ~(ret.result.t = "bool" /\ ~ret.result.b)
             /\ out.val.IsSyncing
                => /\ out.val.StartingBlock = WireInt(ret.result, "startingBlock")
                   /\ out.val.CurrentBlock = WireInt(ret.result, "currentBlock")
                   /\ out.val.HighestBlock = WireInt(ret.result, "highestBlock")

====
